---- MODULE Spec2Model ----
(***************************************************************************)
(* Pause/resume coordination of browser-use-gemini.                        *)
(*                                                                         *)
(*   PauseHook, UserInputHandler, PauseConditions, GeminiAgent             *)
(*       src/browser_use_gemini_pause.py                                   *)
(*   PauseManager                                                          *)
(*       src/utils.py                                                      *)
(*                                                                         *)
(* A coroutine runs atomically between two suspension points, so the       *)
(* actions of check_pause_condition are cut where the code awaits; other   *)
(* tasks of the event loop (add_pause_condition, the browser navigating)   *)
(* take steps only while the call is suspended or not running.             *)
(* Strings are TLA+ strings; Chars gives the characters of those the code   *)
(* searches (URLs, markup, keywords).                                      *)
(***************************************************************************)
EXTENDS Integers, Sequences, FiniteSets, TLC

(* ------------------------------ bounds -------------------------------- *)

\* longest condition sequence add_pause_condition builds
MaxConds == 3
\* longest pause history record_pause builds
MaxHist == 2
\* largest reading of the event loop's clock
MaxClock == 2
\* longest condition sequence of an agent, where two agents run in one process
MaxOwnConds == 1

(* ------------------------------- text --------------------------------- *)

Upper == <<"A","B","C","D","E","F","G","H","I","J","K","L","M",
           "N","O","P","Q","R","S","T","U","V","W","X","Y","Z">>
LowerLetters == <<"a","b","c","d","e","f","g","h","i","j","k","l","m",
                  "n","o","p","q","r","s","t","u","v","w","x","y","z">>

\* str.lower() on one character
LowerChar(c) ==
    IF \E i \in 1..Len(Upper) : Upper[i] = c
    THEN LowerLetters[CHOOSE i \in 1..Len(Upper) : Upper[i] = c]
    ELSE c

\* str.lower(), on the characters of a string
Lower(s) == [i \in 1..Len(s) |-> LowerChar(s[i])]

\* Python's `needle in hay`, on the characters of two strings
Contains(needle, hay) ==
    \E off \in 0..(Len(hay) - Len(needle)) :
        \A i \in 1..Len(needle) : hay[off + i] = needle[i]

\* The characters of each string the model reads as text.
Chars(s) ==
    CASE s = "/home" -> <<"/","h","o","m","e">>
      [] s = "/Login" -> <<"/","L","o","g","i","n">>
      [] s = "/login" -> <<"/","l","o","g","i","n">>
      [] s = "/acct" -> <<"/","a","c","c","t">>
      [] s = "/checkout/cvv" -> <<"/","c","h","e","c","k","o","u","t","/","c","v","v">>
      [] s = "/2FA" -> <<"/","2","F","A">>
      [] s = "<p>hi</p>" -> <<"<","p",">","h","i","<","/","p",">">>
      [] s = "<input type=\"password\">" -> <<"<","i","n","p","u","t"," ","t","y","p","e","=","\"","p","a","s","s","w","o","r","d","\"",">">>
      [] s = "<input TYPE=\"PASSWORD\">" -> <<"<","i","n","p","u","t"," ","T","Y","P","E","=","\"","P","A","S","S","W","O","R","D","\"",">">>
      [] s = "Enter your CVV" -> <<"E","n","t","e","r"," ","y","o","u","r"," ","C","V","V">>
      [] s = "enter your cvv" -> <<"e","n","t","e","r"," ","y","o","u","r"," ","c","v","v">>
      [] s = "reCAPTCHA" -> <<"r","e","C","A","P","T","C","H","A">>
      [] s = "Your SSN" -> <<"Y","o","u","r"," ","S","S","N">>
      [] s = "Verification Code" -> <<"V","e","r","i","f","i","c","a","t","i","o","n"," ","C","o","d","e">>
      [] s = "type=\"password\"" -> <<"t","y","p","e","=","\"","p","a","s","s","w","o","r","d","\"">>
      [] s = "login" -> <<"l","o","g","i","n">>
      [] s = "signin" -> <<"s","i","g","n","i","n">>
      [] s = "auth" -> <<"a","u","t","h">>
      [] s = "credit card" -> <<"c","r","e","d","i","t"," ","c","a","r","d">>
      [] s = "debit card" -> <<"d","e","b","i","t"," ","c","a","r","d">>
      [] s = "card number" -> <<"c","a","r","d"," ","n","u","m","b","e","r">>
      [] s = "cvv" -> <<"c","v","v">>
      [] s = "cvc" -> <<"c","v","c">>
      [] s = "expiration date" -> <<"e","x","p","i","r","a","t","i","o","n"," ","d","a","t","e">>
      [] s = "expiry date" -> <<"e","x","p","i","r","y"," ","d","a","t","e">>
      [] s = "billing address" -> <<"b","i","l","l","i","n","g"," ","a","d","d","r","e","s","s">>
      [] s = "payment" -> <<"p","a","y","m","e","n","t">>
      [] s = "checkout" -> <<"c","h","e","c","k","o","u","t">>
      [] s = "billing" -> <<"b","i","l","l","i","n","g">>
      [] s = "creditcard" -> <<"c","r","e","d","i","t","c","a","r","d">>
      [] s = "two-factor" -> <<"t","w","o","-","f","a","c","t","o","r">>
      [] s = "two factor" -> <<"t","w","o"," ","f","a","c","t","o","r">>
      [] s = "2fa" -> <<"2","f","a">>
      [] s = "verification code" -> <<"v","e","r","i","f","i","c","a","t","i","o","n"," ","c","o","d","e">>
      [] s = "security code" -> <<"s","e","c","u","r","i","t","y"," ","c","o","d","e">>
      [] s = "authenticate" -> <<"a","u","t","h","e","n","t","i","c","a","t","e">>
      [] s = "verification" -> <<"v","e","r","i","f","i","c","a","t","i","o","n">>
      [] s = "captcha" -> <<"c","a","p","t","c","h","a">>
      [] s = "recaptcha" -> <<"r","e","c","a","p","t","c","h","a">>
      [] s = "i'm not a robot" -> <<"i","'","m"," ","n","o","t"," ","a"," ","r","o","b","o","t">>
      [] s = "im not a robot" -> <<"i","m"," ","n","o","t"," ","a"," ","r","o","b","o","t">>
      [] s = "verify you're human" -> <<"v","e","r","i","f","y"," ","y","o","u","'","r","e"," ","h","u","m","a","n">>
      [] s = "verify youre human" -> <<"v","e","r","i","f","y"," ","y","o","u","r","e"," ","h","u","m","a","n">>
      [] s = "social security" -> <<"s","o","c","i","a","l"," ","s","e","c","u","r","i","t","y">>
      [] s = "ssn" -> <<"s","s","n">>
      [] s = "date of birth" -> <<"d","a","t","e"," ","o","f"," ","b","i","r","t","h">>
      [] s = "birthdate" -> <<"b","i","r","t","h","d","a","t","e">>
      [] s = "passport" -> <<"p","a","s","s","p","o","r","t">>
      [] s = "driver's license" -> <<"d","r","i","v","e","r","'","s"," ","l","i","c","e","n","s","e">>
      [] s = "drivers license" -> <<"d","r","i","v","e","r","s"," ","l","i","c","e","n","s","e">>
      [] s = "identity verification" -> <<"i","d","e","n","t","i","t","y"," ","v","e","r","i","f","i","c","a","t","i","o","n">>
      [] s = "government id" -> <<"g","o","v","e","r","n","m","e","n","t"," ","i","d">>

\* 'type="password"'
PasswordMarker == "type=\"password\""

\* ['login', 'signin', 'auth']
LoginTerms == <<"login", "signin", "auth">>

\* AdvancedPauseConditions.payment_form: payment_indicators
payment_form_indicators ==
    <<"credit card", "debit card", "card number", "cvv", "cvc",
      "expiration date", "expiry date", "billing address">>

\* SensitivePageDetector.detect_sensitive_page: payment_indicators
payment_page_indicators ==
    <<"payment", "checkout", "billing", "credit card", "creditcard",
      "card number", "cvv", "cvc", "expiration date">>

\* AdvancedPauseConditions.two_factor_auth: two_factor_indicators
two_factor_indicators ==
    <<"two-factor", "two factor", "2fa", "verification code",
      "security code", "authenticate", "verification">>

\* AdvancedPauseConditions.captcha: captcha_indicators
captcha_indicators ==
    <<"captcha", "recaptcha", "i'm not a robot", "im not a robot",
      "verify you're human", "verify youre human">>

\* AdvancedPauseConditions.personal_information_form:
\* personal_info_indicators
personal_info_indicators ==
    <<"social security", "ssn", "date of birth", "birthdate",
      "passport", "driver's license", "drivers license",
      "identity verification", "government id">>

(* ------------------------- the browsing context ----------------------- *)

\* agent_obj.browser_context: current_url and the markup get_page_html returns
PageHome == [url |-> "/home", html |-> "<p>hi</p>"]
PageLogin == [url |-> "/Login", html |-> "<input type=\"password\">"]
PageUpper == [url |-> "/acct", html |-> "<input TYPE=\"PASSWORD\">"]

Pages == {PageHome, PageLogin, PageUpper}

\* the URLs and the markup the condition library is applied to
LibURLs == {"/home", "/Login", "/login", "/acct", "/checkout/cvv", "/2FA"}
LibHTMLs == {"<p>hi</p>", "<input type=\"password\">", "<input TYPE=\"PASSWORD\">",
             "Enter your CVV", "enter your cvv", "reCAPTCHA",
             "Your SSN", "Verification Code"}
LibPages == [url : LibURLs, html : LibHTMLs]

(* ------------------------------ values -------------------------------- *)

None == "None"

\* what the human types; "" is an empty line
Inputs == {"", "hunter2"}

InputMethods == {"console", "web", "telnet"}
KnownMethods == {"console", "web"}

\* the (condition, message) pairs callers register, as example.py and test.py
\* do; "User input required" is add_pause_condition's default message
Registrations ==
    {<<"password_field", "Password field detected. Please enter your password:">>,
     <<"login_page", "Login page detected. You may need to enter credentials.">>,
     <<"custom", "User input required">>}

\* the exceptions that leave check_pause_condition
RetrievalError == "RetrievalError"
InputErrors == {"EOFError", "NotImplementedError"}

Files == {"history.json"}
\* a file save_history has not written
Absent == [written |-> FALSE, content |-> <<>>]

\* no input(prompt) read is under way
NoRead == [by |-> "none", state |-> "none", value |-> ""]

\* the GeminiAgent instances of one process
Agents == {"a1", "a2"}
\* the list objects PauseHook.__init__ can allocate, one per instance
ListIds == 1..Cardinality(Agents)
\* the (condition, message) pairs registered where two agents run
OwnRegistrations == {r \in Registrations : r[1] # "login_page"}
\* an agent that is not constructed yet
NoAgent == [constructed |-> FALSE, input_method |-> None, paused |-> FALSE,
            user_input |-> None, pause_conditions |-> 0, pc |-> "idle", idx |-> 0]

VARIABLES
    \* GeminiAgent / UserInputHandler
    constructed,        \* GeminiAgent.__init__ has run
    input_method,       \* UserInputHandler.input_method
    page,               \* agent_obj.browser_context: current_url and page html
    \* PauseHook
    paused,             \* PauseHook.paused
    pause_conditions,   \* PauseHook.pause_conditions
    user_input,         \* PauseHook.user_input
    \* the check_pause_condition call in flight
    pc,                 \* "idle" | "loop" | "in_pred" | "handle_pause" |
                        \* "await_input" | "done" (returned or raised to its caller)
    idx,                \* position of the list iterator of the for loop
    message,            \* the message handle_pause was called with
    \* what the call in flight did, as its caller observes it when it ends
    start_len,          \* Len(pause_conditions) when the call started
    invoked,            \* positions of the predicates invoked, in order
    results,            \* what each invoked predicate did: "true", "false", "raise"
    input_calls,        \* get_input invocations
    displayed,          \* pause messages printed
    outcome,            \* "none" | "running" | "returned" | the exception raised
    resumed,            \* handle_pause ran to its end (Paused -> Running)
    hist_at_start,      \* Len(pause_history) when the call started
    \* what earlier calls did
    input_failed,       \* a call that is over ended by an input-channel failure
    \* the event loop and what drives the agent
    read,               \* the input(prompt) read of get_input: who runs it, how far it is
    driver,             \* "none" | "run" (agent.run()) | "script" | "completed" (test.py)
    hooks,              \* agent.hooks: the callbacks registered on before_step
    \* PauseManager
    pause_history,      \* PauseManager.pause_history
    input_history,      \* PauseManager.input_history
    recorded_inputs,    \* the user_input argument of each record_pause call
    files,              \* what save_history wrote, by filename
    clock,              \* asyncio.get_event_loop().time()
    \* a caller of the library
    probe,              \* a condition applied to a page, and what it returned
    view,               \* what a caller holds from get_pause_history
    \* two agents in one process
    agents,             \* by instance: its handler's method, its hook's paused and
                        \* user_input, the list its hook's pause_conditions refers
                        \* to, and where its check_pause_condition call is
    lists               \* the list objects of the process, by identity

hookVars == <<constructed, input_method, page, paused, pause_conditions,
              user_input, pc, idx, message, start_len, invoked, results,
              input_calls, displayed, outcome, resumed, hist_at_start,
              input_failed, read, driver, hooks>>
managerVars == <<pause_history, input_history, recorded_inputs, files, clock>>
otherVars == <<probe, view, agents, lists>>
envVars == <<read, driver, hooks>>
vars == <<hookVars, managerVars, otherVars>>

callVars == <<pc, idx, message, start_len, invoked, results,
              input_calls, displayed, outcome, resumed, hist_at_start,
              input_failed>>

Init ==
    /\ constructed = FALSE
    /\ input_method = None
    /\ page \in Pages
    /\ paused = FALSE
    /\ pause_conditions = <<>>
    /\ user_input = None
    /\ pc = "idle"
    /\ idx = 0
    /\ message = None
    /\ start_len = 0
    /\ invoked = <<>>
    /\ results = <<>>
    /\ input_calls = 0
    /\ displayed = <<>>
    /\ outcome = "none"
    /\ hist_at_start = 0
    /\ resumed = FALSE
    /\ input_failed = FALSE
    /\ pause_history = <<>>
    /\ input_history = <<>>
    /\ recorded_inputs = <<>>
    /\ files = [f \in Files |-> Absent]
    /\ clock = 0
    /\ read = NoRead
    /\ driver = "none"
    /\ hooks = <<>>
    /\ probe = [page |-> PageHome, condition |-> None, out |-> FALSE]
    /\ view = None
    /\ agents = [a \in Agents |-> NoAgent]
    /\ lists = [i \in ListIds |-> <<>>]


(* --------------------------- PauseConditions -------------------------- *)

\* PauseConditions.password_field, given the markup get_page_html returned
password_field(p) == Contains(Chars(PasswordMarker), Chars(p.html))

\* PauseConditions.login_page
login_page(p) ==
    \E i \in 1..Len(LoginTerms) :
        Contains(Chars(LoginTerms[i]), Lower(Chars(p.url)))

\* any(indicator in text for indicator in indicators)
AnyIn(indicators, text) ==
    \E i \in 1..Len(indicators) : Contains(Chars(indicators[i]), text)

\* payment_form consulting the URL as well as the content
payment_form_or_url(p) ==
    \/ AnyIn(payment_form_indicators, Lower(Chars(p.url)))
    \/ AnyIn(payment_form_indicators, Lower(Chars(p.html)))

\* AdvancedPauseConditions.payment_form: the content only
payment_form(p) == AnyIn(payment_form_indicators, Lower(Chars(p.html)))

\* SensitivePageDetector.detect_sensitive_page, results["payment_page"]
payment_page(p) ==
    \E i \in 1..Len(payment_page_indicators) :
        \/ Contains(Chars(payment_page_indicators[i]), Lower(Chars(p.url)))
        \/ Contains(Chars(payment_page_indicators[i]), Lower(Chars(p.html)))

\* AdvancedPauseConditions.two_factor_auth
two_factor_auth(p) ==
    \E i \in 1..Len(two_factor_indicators) :
        \/ Contains(Chars(two_factor_indicators[i]), Lower(Chars(p.url)))
        \/ Contains(Chars(two_factor_indicators[i]), Lower(Chars(p.html)))

\* AdvancedPauseConditions.captcha
captcha(p) == AnyIn(captcha_indicators, Lower(Chars(p.html)))

\* AdvancedPauseConditions.personal_information_form
personal_information_form(p) ==
    AnyIn(personal_info_indicators, Lower(Chars(p.html)))

\* the predicates of the condition library
LibConditions == {"password_field", "login_page", "payment_form", "payment_page",
                  "two_factor_auth", "captcha", "personal_information_form"}

\* what the predicate named c returns on the page p
Eval(c, p) ==
    CASE c = "password_field"  -> password_field(p)
      [] c = "login_page"      -> login_page(p)
      [] c = "payment_form"    -> payment_form(p)
      [] c = "payment_page"    -> payment_page(p)
      [] c = "two_factor_auth" -> two_factor_auth(p)
      [] c = "captcha"         -> captcha(p)
      [] c = "personal_information_form" -> personal_information_form(p)

\* a condition returning the boolean b
Returns(b) == IF b THEN "true" ELSE "false"

\* What awaiting a condition can do: return a boolean, or raise the error of
\* the page or URL retrieval under it.  A custom condition wraps any
\* caller-supplied coroutine.
PredOutcomes(c, p) ==
    CASE c = "password_field" -> {Returns(password_field(p)), "raise"}
      [] c = "login_page"     -> {Returns(login_page(p)), "raise"}
      [] OTHER                -> {"true", "false", "raise"}

\* Whether awaiting the condition yields to the event loop: password_field
\* awaits get_page_html, a custom condition awaits the wrapped coroutine;
\* login_page reads an attribute and never suspends.
Suspends(c) == c # "login_page"

(* ---------------------- GeminiAgent, UserInputHandler ----------------- *)

\* UserInputHandler.__init__: stores the method, whatever it is
UserInputHandler_init(m) == [ok |-> TRUE, input_method |-> m]

\* PauseHook.register_hooks: check_pause_condition is registered on before_step
register_hooks(h) == Append(h, "check_pause_condition")

\* GeminiAgent.__init__: the handler, the hook, register_hooks
GeminiAgent_init(m) ==
    /\ ~constructed
    /\ UserInputHandler_init(m).ok
    /\ constructed' = TRUE
    /\ input_method' = UserInputHandler_init(m).input_method
    /\ hooks' = register_hooks(hooks)
    /\ UNCHANGED <<page, paused, pause_conditions, user_input, callVars,
                   read, driver, managerVars, otherVars>>

\* example.py: `await agent.run()`, the agent's step loop starts.
agent_run ==
    /\ constructed
    /\ driver = "none"
    /\ driver' = "run"
    /\ UNCHANGED <<constructed, input_method, page, paused, pause_conditions,
                   user_input, callVars, read, hooks, managerVars, otherVars>>

\* test.py, test_login_with_pause: agent.initialize(), then the script drives
\* agent.browser_context itself (goto, click_by_text: Navigate below); no
\* agent step is run.
test_initialize ==
    /\ constructed
    /\ driver = "none"
    /\ driver' = "script"
    /\ UNCHANGED <<constructed, input_method, page, paused, pause_conditions,
                   user_input, callVars, read, hooks, managerVars, otherVars>>

\* test.py: "Test completed." is printed and the browser is closed.
test_completed ==
    /\ driver = "script"
    /\ driver' = "completed"
    /\ UNCHANGED <<constructed, input_method, page, paused, pause_conditions,
                   user_input, callVars, read, hooks, managerVars, otherVars>>

\* Another task (or an awaited predicate) runs only while no call is running
\* or the call is suspended at an await with the event loop's thread free.
CallerMayRun ==
    \/ pc = "idle"
    \/ pc = "action"
    \/ pc = "await_input" /\ read.by = "worker"
    \/ pc = "in_pred" /\ Suspends(pause_conditions[idx + 1].condition)

\* PauseHook.add_pause_condition / GeminiAgent.add_pause_condition
add_pause_condition(c, m) ==
    /\ constructed
    /\ CallerMayRun
    /\ Len(pause_conditions) < MaxConds
    /\ pause_conditions' = Append(pause_conditions, [condition |-> c, message |-> m])
    /\ UNCHANGED <<constructed, input_method, page, paused, user_input,
                   callVars, envVars, managerVars, otherVars>>

\* The browser is driven to another page: by the agent, by another task, or
\* by the script of test.py (browser_context.goto, click_by_text).
Navigate(p) ==
    /\ driver \in {"run", "script"}
    /\ CallerMayRun
    /\ p # page
    /\ page' = p
    /\ UNCHANGED <<constructed, input_method, paused, pause_conditions,
                   user_input, callVars, envVars, managerVars, otherVars>>

(* ------------------------ check_pause_condition ----------------------- *)

\* check_pause_condition forgetting the last input when it starts
check_pause_condition_clears ==
    /\ driver = "run"
    /\ \E i \in 1..Len(hooks) : hooks[i] = "check_pause_condition"
    /\ pc = "idle"
    /\ pc' = "loop"
    /\ idx' = 0
    /\ message' = None
    /\ start_len' = Len(pause_conditions)
    /\ invoked' = <<>>
    /\ results' = <<>>
    /\ input_calls' = 0
    /\ displayed' = <<>>
    /\ outcome' = "running"
    /\ hist_at_start' = Len(pause_history)
    /\ resumed' = FALSE
    /\ user_input' = None
    /\ UNCHANGED <<constructed, input_method, page, paused, pause_conditions,
                   input_failed, envVars, managerVars, otherVars>>

\* A step of the agent's loop begins and calls the before_step hook: the for
\* loop takes an iterator of the list.
check_pause_condition ==
    /\ driver = "run"
    /\ \E i \in 1..Len(hooks) : hooks[i] = "check_pause_condition"
    /\ pc = "idle"
    /\ pc' = "loop"
    /\ idx' = 0
    /\ message' = None
    /\ start_len' = Len(pause_conditions)
    /\ invoked' = <<>>
    /\ results' = <<>>
    /\ input_calls' = 0
    /\ displayed' = <<>>
    /\ outcome' = "running"
    /\ hist_at_start' = Len(pause_history)
    /\ resumed' = FALSE
    /\ UNCHANGED <<constructed, input_method, page, paused, pause_conditions,
                   user_input, input_failed, envVars, managerVars, otherVars>>

\* The list iterator yields the entry at idx (the list as it is now) and the
\* condition is called.
for_next ==
    /\ pc = "loop"
    /\ idx < Len(pause_conditions)
    /\ invoked' = Append(invoked, idx)
    /\ pc' = "in_pred"
    /\ UNCHANGED <<constructed, input_method, page, paused, pause_conditions,
                   user_input, idx, message, start_len, results,
                   input_calls, displayed, outcome, hist_at_start, resumed,
                   input_failed, envVars, managerVars, otherVars>>

\* The iterator is exhausted: the call returns.
for_exhausted ==
    /\ pc = "loop"
    /\ idx >= Len(pause_conditions)
    /\ pc' = "done"
    /\ outcome' = "returned"
    /\ UNCHANGED <<constructed, input_method, page, paused, pause_conditions,
                   user_input, idx, message, start_len, invoked, results,
                   input_calls, displayed, hist_at_start, resumed,
                   input_failed, envVars, managerVars, otherVars>>

\* pred_false with a condition passed over once input has been taken
pred_false_suppress ==
    /\ pc = "in_pred"
    /\ \/ "false" \in PredOutcomes(pause_conditions[idx + 1].condition, page)
       \/ user_input # None
    /\ results' = Append(results, "false")
    /\ idx' = idx + 1
    /\ pc' = "loop"
    /\ UNCHANGED <<constructed, input_method, page, paused, pause_conditions,
                   user_input, message, start_len, invoked,
                   input_calls, displayed, outcome, hist_at_start, resumed,
                   input_failed, envVars, managerVars, otherVars>>

\* `if await condition(agent_obj)` is false: next iteration.
pred_false ==
    /\ pc = "in_pred"
    /\ "false" \in PredOutcomes(pause_conditions[idx + 1].condition, page)
    /\ results' = Append(results, "false")
    /\ idx' = idx + 1
    /\ pc' = "loop"
    /\ UNCHANGED <<constructed, input_method, page, paused, pause_conditions,
                   user_input, message, start_len, invoked,
                   input_calls, displayed, outcome, hist_at_start, resumed,
                   input_failed, envVars, managerVars, otherVars>>

\* `if await condition(agent_obj)` is true: paused = True, handle_pause is
\* called with the entry's message.
pred_true ==
    /\ pc = "in_pred"
    /\ "true" \in PredOutcomes(pause_conditions[idx + 1].condition, page)
    /\ results' = Append(results, "true")
    /\ paused' = TRUE
    /\ message' = pause_conditions[idx + 1].message
    /\ pc' = "handle_pause"
    /\ UNCHANGED <<constructed, input_method, page, pause_conditions,
                   user_input, idx, start_len, invoked,
                   input_calls, displayed, outcome, hist_at_start, resumed,
                   input_failed, envVars, managerVars, otherVars>>

\* pred_raise with the exception caught and the loop going on
pred_raise_swallowed ==
    /\ pc = "in_pred"
    /\ "raise" \in PredOutcomes(pause_conditions[idx + 1].condition, page)
    /\ results' = Append(results, "raise")
    /\ idx' = idx + 1
    /\ pc' = "loop"
    /\ UNCHANGED <<constructed, input_method, page, paused, pause_conditions,
                   user_input, message, start_len, invoked,
                   input_calls, displayed, outcome, hist_at_start, resumed,
                   input_failed, envVars, managerVars, otherVars>>

\* The condition raises: nothing catches it, the exception leaves the call.
pred_raise ==
    /\ pc = "in_pred"
    /\ "raise" \in PredOutcomes(pause_conditions[idx + 1].condition, page)
    /\ results' = Append(results, "raise")
    /\ outcome' = RetrievalError
    /\ pc' = "done"
    /\ UNCHANGED <<constructed, input_method, page, paused, pause_conditions,
                   user_input, idx, message, start_len, invoked,
                   input_calls, displayed, hist_at_start, resumed,
                   input_failed, envVars, managerVars, otherVars>>

\* UserInputHandler.get_input up to its await or its raise
get_input(m) ==
    CASE m = "console" -> "to_thread"
      [] m = "web"     -> "NotImplementedError"
      [] OTHER         -> "ValueError"

\* handle_pause with input(prompt) called on the event loop's own thread
handle_pause_blocking ==
    /\ pc = "handle_pause"
    /\ displayed' = Append(displayed, message)
    /\ input_calls' = input_calls + 1
    /\ IF get_input(input_method) = "to_thread"
       THEN /\ pc' = "await_input"
            /\ read' = [by |-> "loop", state |-> "pending", value |-> ""]
            /\ UNCHANGED outcome
       ELSE /\ pc' = "done"
            /\ outcome' = get_input(input_method)
            /\ UNCHANGED read
    /\ UNCHANGED <<constructed, input_method, page, paused, pause_conditions,
                   user_input, idx, message, start_len, invoked, results,
                   resumed, hist_at_start, input_failed, driver, hooks,
                   managerVars, otherVars>>

\* handle_pause: the banner is printed and get_input is called; the console
\* read is handed to a worker thread (asyncio.to_thread) and the call
\* suspends, the other methods raise out of handle_pause and of
\* check_pause_condition.
handle_pause ==
    /\ pc = "handle_pause"
    /\ displayed' = Append(displayed, message)
    /\ input_calls' = input_calls + 1
    /\ IF get_input(input_method) = "to_thread"
       THEN /\ pc' = "await_input"
            /\ read' = [by |-> "worker", state |-> "pending", value |-> ""]
            /\ UNCHANGED outcome
       ELSE /\ pc' = "done"
            /\ outcome' = get_input(input_method)
            /\ UNCHANGED read
    /\ UNCHANGED <<constructed, input_method, page, paused, pause_conditions,
                   user_input, idx, message, start_len, invoked, results,
                   resumed, hist_at_start, input_failed, driver, hooks,
                   managerVars, otherVars>>

\* The thread running input(prompt) gets a line from the human.
worker_input(s) ==
    /\ read.state = "pending"
    /\ read' = [read EXCEPT !.state = "returned", !.value = s]
    /\ UNCHANGED <<constructed, input_method, page, paused, pause_conditions,
                   user_input, callVars, driver, hooks, managerVars, otherVars>>

\* The thread running input(prompt) meets end-of-input: input raises EOFError.
worker_eof ==
    /\ read.state = "pending"
    /\ read' = [read EXCEPT !.state = "raised"]
    /\ UNCHANGED <<constructed, input_method, page, paused, pause_conditions,
                   user_input, callVars, driver, hooks, managerVars, otherVars>>

\* input_returns without the loop's break
input_returns_no_break(s) ==
    /\ pc = "await_input"
    /\ read.state = "returned"
    /\ read.value = s
    /\ user_input' = s
    /\ paused' = FALSE
    /\ resumed' = TRUE
    /\ idx' = idx + 1
    /\ pc' = "loop"
    /\ UNCHANGED <<constructed, input_method, page, pause_conditions,
                   message, start_len, invoked, results, outcome,
                   input_calls, displayed, hist_at_start, input_failed,
                   envVars, managerVars, otherVars>>

\* input_returns with the condition that fired taken off the list
input_returns_consumes(s) ==
    /\ pc = "await_input"
    /\ read.state = "returned"
    /\ read.value = s
    /\ user_input' = s
    /\ paused' = FALSE
    /\ resumed' = TRUE
    /\ pc' = "done"
    /\ outcome' = "returned"
    /\ pause_conditions' = SubSeq(pause_conditions, 1, idx)
                              \o SubSeq(pause_conditions, idx + 2, Len(pause_conditions))
    /\ UNCHANGED <<constructed, input_method, page,
                   idx, message, start_len, invoked, results,
                   input_calls, displayed, hist_at_start, input_failed,
                   envVars, managerVars, otherVars>>

\* get_input giving up on a pending read and going on with an empty input
input_returns_or_timeout(s) ==
    /\ pc = "await_input"
    /\ \/ read.state = "returned" /\ read.value = s
       \/ read.state = "pending" /\ s = ""
    /\ user_input' = s
    /\ paused' = FALSE
    /\ resumed' = TRUE
    /\ outcome' = "returned"
    /\ pc' = "done"
    /\ UNCHANGED <<constructed, input_method, page, pause_conditions,
                   idx, message, start_len, invoked, results, input_calls,
                   displayed, hist_at_start, input_failed,
                   envVars, managerVars, otherVars>>

\* The worker's input() has returned s and the event loop resumes the call:
\* user_input is set, paused is cleared, handle_pause returns and the loop
\* breaks.
input_returns(s) ==
    /\ pc = "await_input"
    /\ read.state = "returned"
    /\ read.value = s
    /\ user_input' = s
    /\ paused' = FALSE
    /\ resumed' = TRUE
    /\ pc' = "done"
    /\ outcome' = "returned"
    /\ UNCHANGED <<constructed, input_method, page, pause_conditions,
                   idx, message, start_len, invoked, results,
                   input_calls, displayed, hist_at_start, input_failed,
                   envVars, managerVars, otherVars>>

\* input_eof with get_input called once more before the error is let out
input_eof_retry ==
    /\ pc = "await_input"
    /\ read.state = "raised"
    /\ IF input_calls < 2
       THEN /\ input_calls' = input_calls + 1
            /\ read' = [read EXCEPT !.state = "pending"]
            /\ UNCHANGED <<pc, outcome>>
       ELSE /\ outcome' = "EOFError"
            /\ pc' = "done"
            /\ UNCHANGED <<input_calls, read>>
    /\ UNCHANGED <<constructed, input_method, page, paused, pause_conditions,
                   user_input, idx, message, start_len, invoked, results,
                   displayed, resumed, hist_at_start, input_failed,
                   driver, hooks, managerVars, otherVars>>

\* The worker's input() has raised EOFError and the event loop resumes the
\* call: the error leaves get_input, handle_pause and check_pause_condition.
input_eof ==
    /\ pc = "await_input"
    /\ read.state = "raised"
    /\ outcome' = "EOFError"
    /\ pc' = "done"
    /\ UNCHANGED <<constructed, input_method, page, paused, pause_conditions,
                   user_input, idx, message, start_len, invoked, results,
                   input_calls, displayed, resumed, hist_at_start,
                   input_failed, envVars, managerVars, otherVars>>

\* The call has returned or raised: control is back in the agent's step loop,
\* which has seen the outcome; the per-call observations start afresh.  After
\* a return the loop goes on to the step's action; after an exception it
\* retries the step or stops.
call_returns ==
    /\ pc = "done"
    /\ pc' = IF outcome = "returned" THEN "action" ELSE "idle"
    /\ read' = NoRead
    /\ idx' = 0
    /\ message' = None
    /\ start_len' = 0
    /\ invoked' = <<>>
    /\ results' = <<>>
    /\ input_calls' = 0
    /\ displayed' = <<>>
    /\ outcome' = "none"
    /\ resumed' = FALSE
    /\ hist_at_start' = 0
    /\ input_failed' = (input_failed \/ outcome \in InputErrors)
    /\ UNCHANGED <<constructed, input_method, page, paused, pause_conditions,
                   user_input, driver, hooks, managerVars, otherVars>>

\* The step's action is taken (the model's chosen browser action): it may
\* leave the page or load another.
take_action(p) ==
    /\ pc = "action"
    /\ pc' = "idle"
    /\ page' = p
    /\ UNCHANGED <<constructed, input_method, paused, pause_conditions,
                   user_input, idx, message, start_len, invoked, results,
                   input_calls, displayed, outcome, resumed, hist_at_start,
                   input_failed, envVars, managerVars, otherVars>>

(* ----------------------------- PauseManager --------------------------- *)

\* the url and reason arguments callers pass to record_pause
RecordURLs == {PageHome.url, PageLogin.url}
RecordReasons == {"Password field detected. Please enter your password:",
                  "User input required"}

\* the keys of a pause_event dict, in insertion order
EventKeys == <<"url", "reason", "input_provided", "timestamp">>

\* bool(user_input) of a str: the empty string is falsy
Truthy(s) == s # ""

\* pause_event with the raw input kept in the dict
pause_event_raw(url, reason, ui) ==
    [url |-> url, reason |-> reason, input_provided |-> Truthy(ui),
     timestamp |-> clock, user_input |-> ui]

\* the pause_event dict record_pause builds (sanitized_input is computed and
\* dropped)
pause_event(url, reason, ui) ==
    [url |-> url, reason |-> reason, input_provided |-> Truthy(ui),
     timestamp |-> clock]

\* PauseManager.record_pause
record_pause(url, reason, ui) ==
    /\ Len(pause_history) < MaxHist
    /\ Len(recorded_inputs) < MaxHist
    /\ pause_history' = Append(pause_history, pause_event(url, reason, ui))
    /\ recorded_inputs' = Append(recorded_inputs, ui)
    /\ UNCHANGED <<hookVars, otherVars, input_history, files, clock>>

\* json.dump of one value, by the Python type of the key's value
JsonValue(k, v) ==
    CASE k \in {"url", "reason"} -> [type |-> "string", text |-> v]
      [] k = "input_provided"   ->
            [type |-> "literal", text |-> IF v THEN "true" ELSE "false"]
      [] OTHER                  -> [type |-> "number", value |-> v]

\* json.dump(self.pause_history): an array of objects, each the members of
\* the dict in insertion order
json_dump(h) ==
    [i \in 1..Len(h) |->
        [j \in 1..Len(EventKeys) |->
            [key |-> EventKeys[j], value |-> JsonValue(EventKeys[j], h[i][EventKeys[j]])]]]

\* Reading a value json.dump wrote back, as json.load does
json_load_value(v) ==
    CASE v.type = "string"  -> v.text
      [] v.type = "literal" -> (v.text = "true")
      [] OTHER              -> v.value

\* json.load of what json.dump wrote: a list of dicts, one per object, each
\* key bound to the value of its member
json_load(content) ==
    [i \in 1..Len(content) |->
        [k \in {content[i][j].key : j \in 1..Len(content[i])} |->
            json_load_value(
                content[i][CHOOSE j \in 1..Len(content[i]) : content[i][j].key = k].value)]]

\* save_history with the file opened for appending
save_history_append(f) ==
    /\ files' = [files EXCEPT ![f] = [written |-> TRUE,
                                       content |-> files[f].content \o json_dump(pause_history)]]
    /\ UNCHANGED <<hookVars, otherVars, pause_history, input_history, recorded_inputs, clock>>

\* PauseManager.save_history: open(filename, 'w') truncates, json.dump writes
save_history(f) ==
    /\ files' = [files EXCEPT ![f] = [written |-> TRUE,
                                       content |-> json_dump(pause_history)]]
    /\ UNCHANGED <<hookVars, otherVars, pause_history, input_history, recorded_inputs, clock>>

\* The event loop's monotonic clock advances.
Tick ==
    /\ clock < MaxClock
    /\ clock' = clock + 1
    /\ UNCHANGED <<hookVars, otherVars, pause_history, input_history, recorded_inputs, files>>

NextHistory ==
    \/ \E u \in RecordURLs, r \in RecordReasons, ui \in Inputs : record_pause(u, r, ui)
    \/ \E f \in Files : save_history(f)
    \/ Tick

\* A caller's PauseManager on its own: record_pause, save_history, the clock.
SpecHistory == Init /\ [][NextHistory]_vars

\* PauseManager.get_pause_history: returns self.pause_history, the list object
\* itself; the caller's reference and the manager's are one list.
get_pause_history ==
    /\ view' = "self.pause_history"
    /\ UNCHANGED <<hookVars, managerVars, probe, agents, lists>>

\* The caller removes the last item of the list it was returned (list.pop()).
caller_pop ==
    /\ view = "self.pause_history"
    /\ Len(pause_history) > 0
    /\ pause_history' = SubSeq(pause_history, 1, Len(pause_history) - 1)
    /\ UNCHANGED <<hookVars, otherVars, input_history, recorded_inputs, files, clock>>

NextView ==
    \/ NextHistory
    \/ get_pause_history
    \/ caller_pop

\* A PauseManager and a caller that reads its history.
SpecView == Init /\ [][NextView]_vars

\* The browser context a caller hands to the condition library shows the page p.
open_page(p) ==
    /\ probe' = [page |-> p, condition |-> None, out |-> FALSE]
    /\ UNCHANGED <<hookVars, managerVars, view, agents, lists>>

\* A caller awaits the predicate c on the page shown.
call_condition(c) ==
    /\ probe' = [probe EXCEPT !.condition = c, !.out = Eval(c, probe.page)]
    /\ UNCHANGED <<hookVars, managerVars, view, agents, lists>>

NextLib ==
    \/ \E p \in LibPages : open_page(p)
    \/ \E c \in LibConditions : call_condition(c)

\* The condition library on its own: its predicates applied to pages.
SpecLib == Init /\ [][NextLib]_vars

(* ---------------------- two agents in one process --------------------- *)

\* Each agent drives its own browser, which is left out: a predicate may
\* return true, return false or raise.  A call is cut at its awaits as above.

\* every PauseHook referring to one list, the first allocated
class_list == CHOOSE i \in ListIds : \A j \in ListIds : i <= j

\* PauseHook.__init__, `self.pause_conditions = []`: a list object no other
\* instance refers to
new_list == Cardinality({a \in Agents : agents[a].constructed}) + 1

\* the condition sequence of the agent a, read through its hook's reference
CondsOf(a) ==
    IF agents[a].constructed THEN lists[agents[a].pause_conditions] ELSE <<>>

\* GeminiAgent.__init__ of the instance a: its own UserInputHandler with the
\* method m, its own PauseHook with paused False, user_input None and an
\* empty list
new_GeminiAgent(a, m) ==
    /\ ~agents[a].constructed
    /\ agents' = [agents EXCEPT ![a] =
                     [constructed |-> TRUE,
                      input_method |-> UserInputHandler_init(m).input_method,
                      paused |-> FALSE, user_input |-> None,
                      pause_conditions |-> new_list, pc |-> "idle", idx |-> 0]]
    /\ lists' = [lists EXCEPT ![new_list] = <<>>]
    /\ UNCHANGED <<hookVars, managerVars, probe, view>>

\* a.add_pause_condition(c, m): appends to the list a's hook refers to
agent_add_pause_condition(a, c, m) ==
    /\ agents[a].constructed
    /\ agents[a].pc \in {"idle", "in_pred", "await_input"}
    /\ Len(CondsOf(a)) < MaxOwnConds
    /\ lists' = [lists EXCEPT ![agents[a].pause_conditions] =
                    Append(@, [condition |-> c, message |-> m])]
    /\ UNCHANGED <<hookVars, managerVars, probe, view, agents>>

\* a's step calls a's hook; with no condition registered the call returns at
\* once, else the first condition is awaited
agent_check_pause_condition(a) ==
    /\ agents[a].constructed
    /\ agents[a].pc = "idle"
    /\ Len(CondsOf(a)) > 0
    /\ agents' = [agents EXCEPT ![a].pc = "in_pred", ![a].idx = 0]
    /\ UNCHANGED <<hookVars, managerVars, probe, view, lists>>

\* the awaited condition returns false: the next one is awaited, or the loop
\* is over and the call returns
agent_pred_false(a) ==
    /\ agents[a].pc = "in_pred"
    /\ agents' = [agents EXCEPT
                     ![a].idx = @ + 1,
                     ![a].pc = IF agents[a].idx + 1 < Len(CondsOf(a))
                               THEN "in_pred" ELSE "idle"]
    /\ UNCHANGED <<hookVars, managerVars, probe, view, lists>>

\* the awaited condition returns true: paused = True, handle_pause calls
\* get_input, which awaits the console read or raises
agent_pred_true(a) ==
    /\ agents[a].pc = "in_pred"
    /\ agents' = [agents EXCEPT
                     ![a].paused = TRUE,
                     ![a].pc = IF get_input(agents[a].input_method) = "to_thread"
                               THEN "await_input" ELSE "idle"]
    /\ UNCHANGED <<hookVars, managerVars, probe, view, lists>>

\* the awaited condition raises: the error leaves the call
agent_pred_raise(a) ==
    /\ agents[a].pc = "in_pred"
    /\ agents' = [agents EXCEPT ![a].pc = "idle"]
    /\ UNCHANGED <<hookVars, managerVars, probe, view, lists>>

\* a's console read returns s: user_input = s, paused = False, the call
\* returns
agent_input_returns(a, s) ==
    /\ agents[a].pc = "await_input"
    /\ agents' = [agents EXCEPT ![a].user_input = s, ![a].paused = FALSE,
                                ![a].pc = "idle"]
    /\ UNCHANGED <<hookVars, managerVars, probe, view, lists>>

\* a's console read raises EOFError: the error leaves the call
agent_input_eof(a) ==
    /\ agents[a].pc = "await_input"
    /\ agents' = [agents EXCEPT ![a].pc = "idle"]
    /\ UNCHANGED <<hookVars, managerVars, probe, view, lists>>

NextTwo ==
    \/ \E a \in Agents, m \in InputMethods : new_GeminiAgent(a, m)
    \/ \E a \in Agents, r \in OwnRegistrations : agent_add_pause_condition(a, r[1], r[2])
    \/ \E a \in Agents : agent_check_pause_condition(a)
    \/ \E a \in Agents : agent_pred_false(a)
    \/ \E a \in Agents : agent_pred_true(a)
    \/ \E a \in Agents : agent_pred_raise(a)
    \/ \E a \in Agents, s \in Inputs : agent_input_returns(a, s)
    \/ \E a \in Agents : agent_input_eof(a)

\* Two GeminiAgent instances whose steps interleave on one event loop.
SpecTwo == Init /\ [][NextTwo]_vars

Next ==
    \/ \E m \in InputMethods : GeminiAgent_init(m)
    \/ \E r \in Registrations : add_pause_condition(r[1], r[2])
    \/ \E p \in Pages : Navigate(p)
    \/ check_pause_condition
    \/ for_next
    \/ for_exhausted
    \/ pred_false
    \/ pred_true
    \/ pred_raise
    \/ handle_pause
    \/ \E s \in Inputs : worker_input(s)
    \/ worker_eof
    \/ \E s \in Inputs : input_returns(s)
    \/ input_eof
    \/ call_returns
    \/ \E p \in Pages : take_action(p)
    \/ agent_run
    \/ test_initialize
    \/ test_completed

Spec == Init /\ [][Next]_vars

\* The event loop resumes a coroutine whose awaited worker thread has
\* finished: a call waiting on a completed read goes on.
SpecLive ==
    /\ Spec
    /\ WF_vars(\E s \in Inputs : input_returns(s))

(* ------------------------------- claims ------------------------------- *)

\* the call is over and returned normally
Returned == pc = "done" /\ outcome = "returned"
\* the call is over and ended by raising
Raised == pc = "done" /\ outcome # "returned"
\* no predicate of the call returned true or raised
NoMatch == /\ Len(results) = Len(invoked)
           /\ \A j \in 1..Len(results) : results[j] = "false"

\* C1: every check_pause_condition call that returns normally returns with
\* paused = FALSE, also a call made after an earlier call ended by raising.
C1_ReturnsNotPaused == Returned => paused = FALSE

\* C2: whenever check_pause_condition ends by raising, paused is FALSE once
\* the exception has left the call.
C2_RaisedNotPaused == Raised => paused = FALSE

\* C3: the predicates invoked by one call are those at positions 0, 1, 2, ...
\* in that order, each once; every predicate before one that returned true
\* returned false, and once the predicate at position k has returned true no
\* predicate at a later position is invoked, up to the end of the call.
C3_ShortCircuit ==
    /\ \A j \in 1..Len(invoked) : invoked[j] = j - 1
    /\ Len(results) <= Len(invoked)
    /\ Len(invoked) <= Len(results) + 1
    /\ \A j \in 1..Len(results) :
          results[j] = "true" =>
              /\ j = Len(results)
              /\ Len(invoked) = j
              /\ pc \in {"handle_pause", "await_input", "done"}
              /\ \A i \in 1..(j - 1) : results[i] = "false"

\* C3 witness: of three registered conditions the first returned false and
\* the second true; the call has returned and the third was never invoked.
C3_Witness ==
    /\ Returned
    /\ start_len = 3
    /\ Len(pause_conditions) = 3
    /\ results = <<"false", "true">>
    /\ invoked = <<0, 1>>

\* C4: a call that resolved a pause has appended exactly one event to the
\* pause history, with url = the current URL, reason = the matched
\* condition's message and input_provided = (the input is non-empty); a call
\* that resolved none has appended nothing.
C4_OneEventPerResume ==
    pc = "done" =>
        IF resumed
        THEN /\ Len(pause_history) = hist_at_start + 1
             /\ pause_history[Len(pause_history)].url = page.url
             /\ pause_history[Len(pause_history)].reason = message
             /\ pause_history[Len(pause_history)].input_provided = (user_input # "")
        ELSE Len(pause_history) = hist_at_start

\* C5: a call in which no predicate returned true (also with no condition
\* registered) returns with paused = FALSE, has requested no input, shown no
\* pause message and appended nothing to the pause history.
C5_NoMatchNoEffect ==
    (Returned /\ NoMatch) =>
        /\ paused = FALSE
        /\ input_calls = 0
        /\ displayed = <<>>
        /\ Len(pause_history) = hist_at_start

\* the non-empty inputs record_pause was given
Secrets == {recorded_inputs[j] : j \in 1..Len(recorded_inputs)} \ {""}

\* C6: every stored event holds exactly url, reason, input_provided and
\* timestamp, with input_provided the boolean (input is non-empty); no input
\* string is held by a stored event, by input_history or by a file that
\* save_history wrote.
C6_HistorySanitized ==
    /\ Len(recorded_inputs) = Len(pause_history)
    /\ input_history = <<>>
    /\ \A i \in 1..Len(pause_history) :
          /\ DOMAIN pause_history[i] = {"url", "reason", "input_provided", "timestamp"}
          /\ pause_history[i].input_provided \in BOOLEAN
          /\ pause_history[i].input_provided = (recorded_inputs[i] # "")
          /\ pause_history[i].timestamp \in Nat
          /\ pause_history[i].url \notin Secrets
          /\ pause_history[i].reason \notin Secrets
    /\ \A f \in Files : \A o \in 1..Len(files[f].content) :
          /\ Len(files[f].content[o]) = Len(EventKeys)
          /\ \A m \in 1..Len(files[f].content[o]) :
                /\ files[f].content[o][m].key = EventKeys[m]
                /\ files[f].content[o][m].key = "input_provided" =>
                      /\ files[f].content[o][m].value.type = "literal"
                      /\ files[f].content[o][m].value.text \in {"true", "false"}
                /\ files[f].content[o][m].value.type \in {"string", "literal"} =>
                      files[f].content[o][m].value.text \notin Secrets

\* C6 witness: a non-empty and an empty input were recorded and the history
\* of both was saved.
C6_Witness ==
    /\ recorded_inputs = <<"hunter2", "">>
    /\ \E f \in Files : files[f].written /\ Len(files[f].content) = 2

\* C7: an input_method other than "console" and "web" fails at construction,
\* so no handler holds an unknown method and no call reaches get_input with
\* one.
C7_UnknownMethodFailsAtConstruction ==
    /\ constructed => input_method \in KnownMethods
    /\ input_calls > 0 => input_method \in KnownMethods

\* C8: a call evaluates only the conditions that were registered when it
\* started.
C8_InFlightSeesStartConditions ==
    \A j \in 1..Len(invoked) : invoked[j] < start_len

\* C9: once a predicate has raised, the call is over with the predicate's
\* error as its outcome; the failing predicate is the last one invoked and
\* was invoked once, every predicate before it returned false, no input was
\* requested and no pause message was shown.
C9_PredicateFailureAborts ==
    \A j \in 1..Len(results) :
        results[j] = "raise" =>
            /\ pc = "done"
            /\ outcome = RetrievalError
            /\ j = Len(results)
            /\ Len(invoked) = j
            /\ \A i \in 1..j : invoked[i] = i - 1
            /\ \A i \in 1..(j - 1) : results[i] = "false"
            /\ input_calls = 0
            /\ displayed = <<>>
            /\ ~resumed

\* C9 witness: of three registered conditions the first returned false and
\* the second raised; the call is over.
C9_Witness ==
    /\ Raised
    /\ start_len = 3
    /\ Len(pause_conditions) = 3
    /\ results = <<"false", "raise">>

\* C10: a call that ends by an input-channel error has invoked get_input
\* exactly once and has not resumed; a call that requested input and returned
\* normally has resumed (the error is never swallowed); and a call made after
\* a call that ended so evaluates the conditions in order from position 0.
C10_InputFailurePropagates ==
    /\ (pc = "done" /\ outcome \in InputErrors) =>
            /\ input_calls = 1
            /\ ~resumed
            /\ results # <<>>
            /\ results[Len(results)] = "true"
    /\ (Returned /\ input_calls > 0) => resumed
    /\ (pc = "done" /\ input_calls > 0 /\ input_method = "web") =>
            outcome = "NotImplementedError"
    /\ (input_failed /\ pc # "idle") =>
            /\ \A j \in 1..Len(invoked) : invoked[j] = j - 1
            /\ pc \in {"loop", "in_pred"} => idx = Len(results)

\* C10 witness: after a call that ended by an input-channel error, a later
\* call has evaluated two conditions, from position 0, and returned.
C10_Witness ==
    /\ input_failed
    /\ Returned
    /\ invoked = <<0, 1>>
    /\ Len(results) = 2

(* ------------------------- C11: channel isolation --------------------- *)

\* another task of the event loop can take a step
OtherTaskCanStep == ENABLED (\E p \in Pages : Navigate(p))

\* C11: while a check_pause_condition call waits in the console get_input,
\* the blocking read runs on a separate worker and the other tasks of the
\* event loop can take steps; the call has resumed (with the input, or with
\* the read's error) only once the worker's read has completed.
C11_ChannelIsolation ==
    /\ pc = "await_input" => read.by = "worker" /\ OtherTaskCanStep
    /\ resumed => read.state = "returned" /\ user_input = read.value
    /\ (pc = "done" /\ outcome = "EOFError") => read.state = "raised"

\* the call waits for the human, the read is still pending on the worker, and
\* meanwhile another task has driven the browser off the page that matched
C11_Witness ==
    /\ pc = "await_input"
    /\ read = [by |-> "worker", state |-> "pending", value |-> ""]
    /\ Len(pause_conditions) = 1
    /\ pause_conditions[1].condition = "password_field"
    /\ results = <<"true">>
    /\ ~password_field(page)

(* ------------------ C12: a matching page pauses the flow -------------- *)

\* the condition c is in the registered sequence
Registered(c) == \E i \in 1..Len(pause_conditions) : pause_conditions[i].condition = c

\* C12: with password_field registered, once the browser has been driven to
\* a page whose markup has a password field, execution pauses and waits for
\* input before the flow goes on: the script of test.py does not reach its
\* end on such a page without input having been taken.
C12_MatchingPagePauses ==
    [][(driver = "script" /\ driver' = "completed"
            /\ Registered("password_field") /\ password_field(page))
          => user_input # None]_vars

(* ---------------- C13: the hook gates the step's action --------------- *)

\* C13: construction installs check_pause_condition on before_step exactly
\* once, and a step's action is taken only after the evaluation pass of that
\* step has returned, never while paused is true.
C13_ActionOnlyWhenNotPaused ==
    /\ constructed => hooks = <<"check_pause_condition">>
    /\ pc = "action" => ~paused

(* ------------------- C14: the persistence round trip ------------------ *)

\* the objects read back are the n first recorded events, field by field and
\* in order, with non-decreasing timestamps
ReadsBack(loaded, h, inputs, n) ==
    /\ Len(loaded) = n
    /\ n <= Len(h)
    /\ \A i \in 1..n :
          /\ loaded[i].url = h[i].url
          /\ loaded[i].reason = h[i].reason
          /\ loaded[i].input_provided = (inputs[i] # "")
    /\ \A i, j \in 1..n : i <= j => loaded[i].timestamp <= loaded[j].timestamp

\* C14: what save_history wrote reads back as the recorded events, in order,
\* with matching url, reason and input_provided and non-decreasing
\* timestamps; every save leaves the destination holding exactly the full
\* history at that time (it overwrites, it never concatenates), so a file
\* always holds the history as it was at the most recent save.
C14_PersistenceRoundTrip ==
    /\ [](\A f \in Files : files[f].written =>
              ReadsBack(json_load(files[f].content), pause_history,
                        recorded_inputs, Len(files[f].content)))
    /\ [][\A f \in Files : files'[f] # files[f] =>
              ReadsBack(json_load(files'[f].content), pause_history',
                        recorded_inputs', Len(pause_history'))]_vars

\* C14 witness: two events recorded at different times, the second with an
\* empty input, were saved and read back as two objects
C14_Witness ==
    \E f \in Files :
        /\ files[f].written
        /\ Len(json_load(files[f].content)) = 2
        /\ Len(pause_history) = 2
        /\ json_load(files[f].content)[1].timestamp < json_load(files[f].content)[2].timestamp
        /\ json_load(files[f].content)[1].input_provided
        /\ ~json_load(files[f].content)[2].input_provided

(* --------------------- C15: the wait for the human -------------------- *)

\* a condition of the call in flight has matched
Matched == \E j \in 1..Len(results) : results[j] = "true"

\* C15: once a condition has matched, the call neither returns nor clears
\* paused while no input has been supplied: it stays paused and running
\* through handle_pause and the wait, and it has returned only from a read
\* that returned; once the human has supplied input, the call eventually
\* returns with paused = FALSE.
C15_WaitsForInput ==
    /\ [](pc \in {"handle_pause", "await_input"} => paused /\ outcome = "running")
    /\ []((Returned /\ Matched) => read.state = "returned" /\ resumed)
    /\ (pc = "await_input" /\ read.state = "returned") ~> (Returned /\ ~paused)

\* C15 witness: the call matched, waited, the human typed a line and the call
\* returned with it, paused cleared
C15_Witness ==
    /\ Returned
    /\ Matched
    /\ read = [by |-> "worker", state |-> "returned", value |-> "hunter2"]
    /\ user_input = "hunter2"
    /\ ~paused

(* ---------------------- C16: the payment condition -------------------- *)

\* the URLs and the markup of the library's pages in which, letter case
\* aside, a keyword of payment_form occurs ("cvv")
PaymentURLs == {"/checkout/cvv"}
PaymentHTMLs == {"Enter your CVV", "enter your cvv"}

\* C16 as stated: payment_form is true when a payment keyword occurs only in
\* the URL, when it occurs only in the content, and false when in neither.
C16_PaymentUrlOrContent ==
    probe.condition = "payment_form" =>
        (probe.out <=> (probe.page.url \in PaymentURLs \/ probe.page.html \in PaymentHTMLs))

\* C16, amended: payment_form is true iff the page content, letter case
\* aside, contains one of its keywords; the URL is not consulted.  It is the
\* payment_page entry of detect_sensitive_page that is true when a keyword
\* of its own set occurs in the URL or in the content.
C16_PaymentContentOnly ==
    /\ probe.condition = "payment_form" =>
          (probe.out <=> probe.page.html \in PaymentHTMLs)
    /\ probe.condition = "payment_page" =>
          (probe.out <=> (probe.page.url \in PaymentURLs \/ probe.page.html \in PaymentHTMLs))

\* C16 witness: payment_form was applied to a page with a payment keyword in
\* its URL only, and returned false
C16_Witness ==
    /\ probe.condition = "payment_form"
    /\ probe.page = [url |-> "/checkout/cvv", html |-> "<p>hi</p>"]
    /\ probe.out = FALSE

(* -------------------- C17: letter case of the page -------------------- *)

\* two pages whose URLs and markup differ in letter case only
SameUpToCase(p, q) ==
    /\ Lower(Chars(p.url)) = Lower(Chars(q.url))
    /\ Lower(Chars(p.html)) = Lower(Chars(q.html))

\* C17: every predicate of the condition library matches without regard to
\* letter case: a page that differs from the one a predicate was applied to
\* in the letter case of its URL and content only gets the same result.
C17_CaseInsensitive ==
    probe.condition \in LibConditions =>
        \A q \in LibPages :
            SameUpToCase(probe.page, q) => Eval(probe.condition, q) = probe.out

(* ----------------------- C18: an append-only log ---------------------- *)

\* the sequence a is an initial part of the sequence b
IsPrefix(a, b) ==
    /\ Len(a) <= Len(b)
    /\ \A i \in 1..Len(a) : a[i] = b[i]

\* C18: the stored history only grows: whatever record_pause, save_history,
\* get_pause_history and the holder of a returned sequence do, the history
\* after a step is the history before it, extended by the events recorded;
\* no stored event is removed, reordered or altered.
C18_AppendOnly == [][IsPrefix(pause_history, pause_history')]_vars

(* ------------------ C19: the call only gates the step ----------------- *)

\* a step of the check_pause_condition call in flight: its position moves,
\* and it is not the agent taking the step's action
CallStep == pc' # pc /\ pc # "action"

\* C19: no step of a check_pause_condition call, whether the call pauses,
\* does not pause or raises, changes the registered condition sequence, the
\* agent state it was given (URL and page content) or a coordinator field
\* other than paused and user_input.
C19_CallLeavesStateAlone ==
    [][CallStep => UNCHANGED <<pause_conditions, page, input_method,
                               constructed, hooks, driver>>]_vars

\* C19 witness: a call over two registered conditions paused, took input and
\* returned, on the page and with the two conditions it started with
C19_Witness ==
    /\ Returned
    /\ resumed
    /\ start_len = 2
    /\ Len(pause_conditions) = 2
    /\ Len(invoked) = 2
    /\ password_field(page)

(* ---------------------- C20: pausing is memoryless -------------------- *)

\* the condition the call in flight is awaiting
Current == pause_conditions[idx + 1].condition

\* C20: whether a call pauses depends on the page and the registered
\* conditions only, never on earlier pauses: whatever input was taken or
\* failed before, a predicate of the library that returns at a page it
\* matches pauses the call, one that returns at a page it does not match lets
\* the loop go on, and every pause asks for input.
C20_Memoryless ==
    [][/\ (pc = "in_pred" /\ pc' \notin {"in_pred", "done"}
              /\ Current \in {"password_field", "login_page"}) =>
            IF Eval(Current, page)
            THEN pc' = "handle_pause" /\ paused'
            ELSE pc' = "loop" /\ idx' = idx + 1
       /\ (pc = "handle_pause" /\ pc' # pc) => input_calls' = input_calls + 1
      ]_vars

\* C20 witness: input was taken at an earlier pause, and a later call over
\* the one registered condition, on a page that still matches, waits for
\* input again
C20_Witness ==
    /\ pc = "await_input"
    /\ user_input = "hunter2"
    /\ Len(pause_conditions) = 1
    /\ pause_conditions[1].condition = "password_field"
    /\ password_field(page)
    /\ paused

(* ------------------- C21: the last captured input --------------------- *)

\* the step at which an input wait completes: get_input returns to
\* handle_pause
InputWaitCompletes == pc = "await_input" /\ pc' = "done" /\ outcome' = "returned"

\* C21: user_input is None until the first input wait completes; the step
\* that completes a wait stores the raw value the read returned, and no other
\* step (of a no-match evaluation, of an evaluation that raises, of
\* add_pause_condition, of anything else) writes or clears it.
C21_LastInputKept ==
    /\ user_input = None
    /\ [][IF InputWaitCompletes
          THEN user_input' = read.value
          ELSE user_input' = user_input]_vars

\* C21 witness: the input of an earlier pause is still held at the end of a
\* later call that paused again and raised on end-of-input
C21_Witness ==
    /\ pc = "done"
    /\ outcome = "EOFError"
    /\ user_input = "hunter2"
    /\ paused

(* ----------------------- C22: agents are isolated --------------------- *)

\* what the agent b's hook holds: paused, user_input, the condition sequence
FieldsOf(b) == <<agents[b].paused, agents[b].user_input, CondsOf(b)>>

\* C22: two GeminiAgent instances own separate hooks: their hooks refer to
\* different condition lists, and no step -- an add_pause_condition, a
\* pause, a resume or an error of one agent -- changes the paused flag, the
\* user_input or the condition sequence of the other: every step leaves all
\* agents but one as they were.
C22_AgentsIsolated ==
    [][/\ \A a, b \in Agents :
             (a # b /\ agents'[a].constructed /\ agents'[b].constructed) =>
                 agents'[a].pause_conditions # agents'[b].pause_conditions
       /\ \E a \in Agents : \A b \in Agents \ {a} : FieldsOf(b)' = FieldsOf(b)
      ]_vars

\* C22 witness: a1 is paused and waits for input, with a condition of its
\* own; a2 has taken input at a pause of its own, runs, and holds another
\* condition
C22_Witness ==
    /\ agents["a1"].pc = "await_input"
    /\ agents["a1"].paused
    /\ agents["a1"].user_input = None
    /\ agents["a2"].user_input = "hunter2"
    /\ ~agents["a2"].paused
    /\ Len(CondsOf("a1")) = 1
    /\ Len(CondsOf("a2")) = 1
    /\ CondsOf("a1") # CondsOf("a2")

====
